---------------------------- MODULE Spec2Model ----------------------------
(***************************************************************************)
(* A model of the FORScan automation layer:                                *)
(*   - FORScanConnector   (src/python/forscan/core.py)                     *)
(*   - DiagnosticSession  (src/python/forscan/diagnostics.py)              *)
(*   - ELM327Adapter, J2534Adapter, STNAdapter                             *)
(*                        (src/python/forscan/adapters.py)                 *)
(*   - the REST server    (src/python/forscan/server.py)                   *)
(*   - Config             (src/python/forscan/config.py)                   *)
(*   - the command line   (src/python/forscan/cli new.py)                  *)
(*                                                                         *)
(* Python's Optional values are modelled as sequences of length at most    *)
(* one: None is <<>> and a present value x is <<x>>.                       *)
(***************************************************************************)
EXTENDS Integers, Sequences, FiniteSets, TLC

VARIABLES
    \* FORScanConnector
    connector_connected,   \* FORScanConnector.connected
    vehicle_info,          \* FORScanConnector.vehicle_info (Optional)
    \* DiagnosticSession
    session_active,        \* DiagnosticSession.session_active
    start_time,            \* DiagnosticSession.start_time (Optional)
    dtcs,                  \* DiagnosticSession.dtcs (list)
    live_data,             \* DiagnosticSession.live_data (dict pid -> parameter)
    started,               \* history: some start_session() call has returned True
    last                   \* the last call on connector/session: its name, its
                           \* return value and the connector methods it invoked;
                           \* tick flips at every call, so that two equal calls
                           \* in a row are two steps

sessionVars == <<connector_connected, vehicle_info, session_active, start_time,
                 dtcs, live_data, started, last>>

\* one adapter object (ELM327Adapter, STNAdapter or J2534Adapter)
VARIABLES
    kind,                  \* the adapter's class
    adapter_connected,     \* BaseAdapter.connected
    connection,            \* BaseAdapter.connection (Optional serial.Serial)
    device_id,             \* J2534Adapter.device_id (Optional)
    channel_id,            \* J2534Adapter.channel_id (Optional)
    device,                \* the hardware behind the channel: how it takes a
                           \* command and what it sends back
    adapter_last           \* the last call on the adapter: its name, inputs,
                           \* outcome and what it did on the channel

adapterVars == <<kind, adapter_connected, connection, device_id, channel_id,
                 device, adapter_last>>

\* the REST server: its globals _connector and _session are the connector and
\* the session above
VARIABLES
    _session,              \* whether the global _session refers to a session
    requests,              \* the HTTP requests: endpoint, phase and answer
    served                 \* history: the requests in the order their handlers ran

serverVars == <<_session, requests, served>>

\* one Config object, its file and the process environment
VARIABLES
    config,                \* Config.adapter, Config.logging, Config.forscan
    config_file,           \* the YAML document at Config.config_file (Optional)
    env,                   \* the FORSCAN_* environment variables (Optional each)
    config_last            \* the last call on the Config object

configVars == <<config, config_file, env, config_last>>

\* one invocation of the command line at a time
VARIABLES
    cli_command,           \* the command invoked and its options
    cli_pc                 \* how far the command has got

cliVars == <<cli_command, cli_pc>>

vars == <<sessionVars, adapterVars, serverVars, configVars, cliVars>>

---------------------------------------------------------------------------
(* Bounds of the model *)

\* the server receives at most MaxRequests requests
MaxRequests == 3

\* datetime.now() is read as a value of 1..MaxTime
MaxTime == 2

Times == 1..MaxTime

\* a device answers one command with at most MaxLen one-byte reads
MaxLen == 4

---------------------------------------------------------------------------
(* Python values *)

None == <<>>

Some(x) == <<x>>

\* the empty dict {}
EmptyDict == [k \in {} |-> {}]

\* dict.get(key, default)
DictGet(d, key, default) == IF key \in DOMAIN d THEN d[key] ELSE default

---------------------------------------------------------------------------
(* FORScanConnector *)

AdapterTypes == {"ELM327", "J2534", "STN"}

Ports == {"COM1", "COM3"}

\* VehicleInfo(make="Ford", model="F-150", year=2020, vin=...), engine=None
FixtureVehicleInfo ==
    [make |-> "Ford", model |-> "F-150", year |-> 2020,
     vin |-> Some("1FTFW1E5XLFA12345"), engine |-> None]

\* the placeholder result of read_dtcs() on a connected connector
FixtureDtcData ==
    [dtcs |-> << [code |-> "P0300",
                  description |-> "Random/Multiple Cylinder Misfire Detected"],
                 [code |-> "B1234", description |-> "Example Body Code"] >>,
     count |-> 2]

\* faulty variant: read_dtcs() answering the placeholder data in any state
Connector_read_dtcs_NoCheck(c) == FixtureDtcData

\* FORScanConnector.read_dtcs(): its return value when connected = c
Connector_read_dtcs(c) == IF ~c THEN EmptyDict ELSE FixtureDtcData

\* FORScanConnector.clear_dtcs(): its return value when connected = c
Connector_clear_dtcs(c) == IF ~c THEN FALSE ELSE TRUE

\* what a call finds: the connector's and the session's flags and the size
\* of the DTC set as it begins
Pre == [connected |-> connector_connected, active |-> session_active,
        ndtcs |-> Len(dtcs)]

\* a call on the connector itself leaves the session (and the adapter) alone
SessionUnchanged ==
    UNCHANGED <<session_active, start_time, dtcs, live_data, started,
                adapterVars, serverVars, configVars, cliVars>>

\* faulty variant: connect() refusing a connector that is already connected
FORScanConnector_connect_RefusesSecond ==
    \E adapter_type \in AdapterTypes, port \in Ports :
        /\ connector_connected' = TRUE
        /\ last' = [op |-> "connect", ret |-> ~connector_connected,
                    calls |-> <<>>, arg |-> <<adapter_type, port>>,
                    tick |-> ~last.tick, pre |-> Pre]
        /\ UNCHANGED vehicle_info
        /\ SessionUnchanged

\* FORScanConnector.connect(adapter_type, port)
FORScanConnector_connect ==
    \E adapter_type \in AdapterTypes, port \in Ports :
        /\ connector_connected' = TRUE
        /\ last' = [op |-> "connect", ret |-> TRUE, calls |-> <<>>,
                    arg |-> <<adapter_type, port>>, tick |-> ~last.tick, pre |-> Pre]
        /\ UNCHANGED vehicle_info
        /\ SessionUnchanged

\* faulty variant: disconnect() that logs but never resets the flag
FORScanConnector_disconnect_KeepsFlag ==
    /\ last' = [op |-> "disconnect", ret |-> None, calls |-> <<>>, arg |-> None,
                tick |-> ~last.tick, pre |-> Pre]
    /\ UNCHANGED <<connector_connected, vehicle_info>>
    /\ SessionUnchanged

\* FORScanConnector.disconnect()
FORScanConnector_disconnect ==
    /\ connector_connected' = IF connector_connected THEN FALSE
                              ELSE connector_connected
    /\ last' = [op |-> "disconnect", ret |-> None, calls |-> <<>>, arg |-> None, tick |-> ~last.tick, pre |-> Pre]
    /\ UNCHANGED vehicle_info
    /\ SessionUnchanged

\* FORScanConnector.get_vehicle_info()
FORScanConnector_get_vehicle_info ==
    /\ IF ~connector_connected
       THEN /\ last' = [op |-> "get_vehicle_info", ret |-> None, calls |-> <<>>, arg |-> None, tick |-> ~last.tick, pre |-> Pre]
            /\ UNCHANGED vehicle_info
       ELSE /\ vehicle_info' = Some(FixtureVehicleInfo)
            /\ last' = [op |-> "get_vehicle_info", ret |-> vehicle_info',
                        calls |-> <<>>, arg |-> None, tick |-> ~last.tick, pre |-> Pre]
    /\ UNCHANGED connector_connected
    /\ SessionUnchanged

\* FORScanConnector.read_dtcs(), called on the connector itself
FORScanConnector_read_dtcs ==
    /\ last' = [op |-> "connector.read_dtcs",
                ret |-> Connector_read_dtcs(connector_connected), calls |-> <<>>, arg |-> None, tick |-> ~last.tick, pre |-> Pre]
    /\ UNCHANGED <<connector_connected, vehicle_info>>
    /\ SessionUnchanged

\* FORScanConnector.clear_dtcs(), called on the connector itself
FORScanConnector_clear_dtcs ==
    /\ last' = [op |-> "connector.clear_dtcs",
                ret |-> Connector_clear_dtcs(connector_connected), calls |-> <<>>, arg |-> None, tick |-> ~last.tick, pre |-> Pre]
    /\ UNCHANGED <<connector_connected, vehicle_info>>
    /\ SessionUnchanged

---------------------------------------------------------------------------
(* DiagnosticSession *)

\* the parameter ids a caller may ask for; only RPM and SPEED are decoded
Pids == {"RPM", "SPEED", "TEMP"}

\* the pid lists a caller passes to read_live_data
PidLists == {<<>>} \cup {<<p>> : p \in Pids}
                   \cup {<<p, q>> : p \in Pids, q \in Pids}

\* the procedure names a caller passes to perform_service_procedure
ProcedureNames == {"DPF_REGEN", "OIL_RESET", "BMS_RESET", "ABS_BLEED"}

\* faulty variant: records tagged "STORED" instead of "ACTIVE"
MakeDtc_Stored(dtc, now) ==
    [code |-> dtc.code, description |-> dtc.description, status |-> "STORED",
     freeze_frame |-> None, timestamp |-> Some(now)]

\* DiagnosticTroubleCode(code, description, status="ACTIVE", timestamp=now)
MakeDtc(dtc, now) ==
    [code |-> dtc.code, description |-> dtc.description, status |-> "ACTIVE",
     freeze_frame |-> None, timestamp |-> Some(now)]

\* the LiveDataParameter read_live_data stores for a recognised pid
LiveParam(pid) ==
    IF pid = "RPM"
    THEN [pid |-> pid, name |-> "Engine RPM", value |-> 750, unit |-> "rpm",
          min_value |-> 0, max_value |-> 8000]
    ELSE [pid |-> pid, name |-> "Vehicle Speed", value |-> 0, unit |-> "mph",
          min_value |-> 0, max_value |-> 200]

\* faulty variant: read_live_data answering only what this call asked for
StoreLive_Fresh(d, pids, i) ==
    [p \in {pids[j] : j \in DOMAIN pids} \cap {"RPM", "SPEED"} |-> LiveParam(p)]

\* the loop of read_live_data over pids, from position i, on the mapping d
RECURSIVE StoreLive(_, _, _)
StoreLive(d, pids, i) ==
    IF i > Len(pids) THEN d
    ELSE IF pids[i] \in {"RPM", "SPEED"}
         THEN StoreLive([p \in DOMAIN d \cup {pids[i]} |->
                            IF p = pids[i] THEN LiveParam(p) ELSE d[p]],
                        pids, i + 1)
         ELSE StoreLive(d, pids, i + 1)

\* a call on the session changes no field of the connector (nor the adapter)
ConnectorUnchanged ==
    UNCHANGED <<connector_connected, vehicle_info, adapterVars, serverVars,
                configVars, cliVars>>

\* faulty variant: start_session without the check of connector.connected
start_session_Unguarded ==
    \E now \in Times :
        /\ session_active' = TRUE
        /\ start_time' = Some(now)
        /\ started' = TRUE
        /\ last' = [op |-> "start_session", ret |-> TRUE, calls |-> <<>>, arg |-> None, tick |-> ~last.tick, pre |-> Pre]
        /\ UNCHANGED <<dtcs, live_data>>
        /\ ConnectorUnchanged

\* faulty variant: start_session refusing a session that is active already
start_session_RefusesActive ==
    /\ IF ~connector_connected \/ session_active
       THEN /\ last' = [op |-> "start_session", ret |-> FALSE, calls |-> <<>>,
                        arg |-> None, tick |-> ~last.tick, pre |-> Pre]
            /\ UNCHANGED <<session_active, start_time, started>>
       ELSE \E now \in Times :
            /\ session_active' = TRUE
            /\ start_time' = Some(now)
            /\ started' = TRUE
            /\ last' = [op |-> "start_session", ret |-> TRUE, calls |-> <<>>,
                        arg |-> None, tick |-> ~last.tick, pre |-> Pre]
    /\ UNCHANGED <<dtcs, live_data>>
    /\ ConnectorUnchanged

\* faulty variant: start_session beginning each activation with an empty DTC
\* set and an empty live-data mapping
start_session_ClearsRecords ==
    /\ IF ~connector_connected
       THEN /\ last' = [op |-> "start_session", ret |-> FALSE, calls |-> <<>>,
                        arg |-> None, tick |-> ~last.tick, pre |-> Pre]
            /\ UNCHANGED <<session_active, start_time, started, dtcs, live_data>>
       ELSE \E now \in Times :
            /\ session_active' = TRUE
            /\ start_time' = Some(now)
            /\ started' = TRUE
            /\ dtcs' = <<>>
            /\ live_data' = EmptyDict
            /\ last' = [op |-> "start_session", ret |-> TRUE, calls |-> <<>>,
                        arg |-> None, tick |-> ~last.tick, pre |-> Pre]
    /\ ConnectorUnchanged

\* DiagnosticSession.start_session()
start_session ==
    /\ IF ~connector_connected
       THEN /\ last' = [op |-> "start_session", ret |-> FALSE, calls |-> <<>>, arg |-> None, tick |-> ~last.tick, pre |-> Pre]
            /\ UNCHANGED <<session_active, start_time, started>>
       ELSE \E now \in Times :
            /\ session_active' = TRUE
            /\ start_time' = Some(now)
            /\ started' = TRUE
            /\ last' = [op |-> "start_session", ret |-> TRUE, calls |-> <<>>, arg |-> None, tick |-> ~last.tick, pre |-> Pre]
    /\ UNCHANGED <<dtcs, live_data>>
    /\ ConnectorUnchanged

\* faulty variant: end_session that keeps the start time
end_session_KeepsStartTime ==
    /\ IF session_active
       THEN session_active' = FALSE
       ELSE UNCHANGED session_active
    /\ last' = [op |-> "end_session", ret |-> None, calls |-> <<>>, arg |-> None,
                tick |-> ~last.tick, pre |-> Pre]
    /\ UNCHANGED <<start_time, dtcs, live_data, started>>
    /\ ConnectorUnchanged

\* DiagnosticSession.end_session()
end_session ==
    /\ IF session_active
       THEN /\ session_active' = FALSE
            /\ start_time' = None
       ELSE UNCHANGED <<session_active, start_time>>
    /\ last' = [op |-> "end_session", ret |-> None, calls |-> <<>>, arg |-> None, tick |-> ~last.tick, pre |-> Pre]
    /\ UNCHANGED <<dtcs, live_data, started>>
    /\ ConnectorUnchanged

\* the records scan_dtcs builds from the connector's answer dtc_data
ScannedDtcs(dtc_data, now) ==
    LET raw == DictGet(dtc_data, "dtcs", <<>>)
    IN  [i \in 1..Len(raw) |-> MakeDtc(raw[i], now)]

\* faulty variant: scan_dtcs without the check of session_active
scan_dtcs_Unguarded ==
    \E now \in Times :
        /\ dtcs' = ScannedDtcs(Connector_read_dtcs(connector_connected), now)
        /\ last' = [op |-> "scan_dtcs", ret |-> dtcs', calls |-> <<"read_dtcs">>, arg |-> None, tick |-> ~last.tick, pre |-> Pre]
        /\ UNCHANGED <<session_active, start_time, live_data, started>>
        /\ ConnectorUnchanged

\* faulty variant: scan_dtcs appending to the list it already holds
scan_dtcs_Appends ==
    /\ IF ~session_active
       THEN /\ last' = [op |-> "scan_dtcs", ret |-> <<>>, calls |-> <<>>,
                        arg |-> None, tick |-> ~last.tick, pre |-> Pre]
            /\ UNCHANGED dtcs
       ELSE \E now \in Times :
            /\ dtcs' = IF Len(dtcs) >= 2 THEN dtcs
                       ELSE dtcs \o ScannedDtcs(
                                Connector_read_dtcs(connector_connected), now)
            /\ last' = [op |-> "scan_dtcs", ret |-> dtcs',
                        calls |-> <<"read_dtcs">>, arg |-> None,
                        tick |-> ~last.tick, pre |-> Pre]
    /\ UNCHANGED <<session_active, start_time, live_data, started>>
    /\ ConnectorUnchanged

\* DiagnosticSession.scan_dtcs()
scan_dtcs ==
    /\ IF ~session_active
       THEN /\ last' = [op |-> "scan_dtcs", ret |-> <<>>, calls |-> <<>>, arg |-> None, tick |-> ~last.tick, pre |-> Pre]
            /\ UNCHANGED dtcs
       ELSE \E now \in Times :
            /\ dtcs' = ScannedDtcs(Connector_read_dtcs(connector_connected), now)
            /\ last' = [op |-> "scan_dtcs", ret |-> dtcs',
                        calls |-> <<"read_dtcs">>, arg |-> None, tick |-> ~last.tick, pre |-> Pre]
    /\ UNCHANGED <<session_active, start_time, live_data, started>>
    /\ ConnectorUnchanged

\* faulty variant: clear_dtcs emptying the list whatever the connector answers
clear_dtcs_ClearsBeforeAsking ==
    /\ IF ~session_active
       THEN /\ last' = [op |-> "clear_dtcs", ret |-> FALSE, calls |-> <<>>, arg |-> None, tick |-> ~last.tick, pre |-> Pre]
            /\ UNCHANGED dtcs
       ELSE LET success == Connector_clear_dtcs(connector_connected)
            IN  /\ dtcs' = <<>>
                /\ last' = [op |-> "clear_dtcs", ret |-> success,
                            calls |-> <<"clear_dtcs">>, arg |-> None, tick |-> ~last.tick, pre |-> Pre]
    /\ UNCHANGED <<session_active, start_time, live_data, started>>
    /\ ConnectorUnchanged

\* DiagnosticSession.clear_dtcs()
clear_dtcs ==
    /\ IF ~session_active
       THEN /\ last' = [op |-> "clear_dtcs", ret |-> FALSE, calls |-> <<>>, arg |-> None, tick |-> ~last.tick, pre |-> Pre]
            /\ UNCHANGED dtcs
       ELSE LET success == Connector_clear_dtcs(connector_connected)
            IN  /\ dtcs' = IF success THEN <<>> ELSE dtcs
                /\ last' = [op |-> "clear_dtcs", ret |-> success,
                            calls |-> <<"clear_dtcs">>, arg |-> None, tick |-> ~last.tick, pre |-> Pre]
    /\ UNCHANGED <<session_active, start_time, live_data, started>>
    /\ ConnectorUnchanged

\* DiagnosticSession.read_live_data(pids)
read_live_data ==
    \E pids \in PidLists :
        /\ IF ~session_active
           THEN /\ last' = [op |-> "read_live_data", ret |-> EmptyDict,
                            calls |-> <<>>, arg |-> pids, tick |-> ~last.tick, pre |-> Pre]
                /\ UNCHANGED live_data
           ELSE /\ live_data' = StoreLive(live_data, pids, 1)
                /\ last' = [op |-> "read_live_data", ret |-> live_data',
                            calls |-> <<>>, arg |-> pids, tick |-> ~last.tick, pre |-> Pre]
        /\ UNCHANGED <<session_active, start_time, dtcs, started>>
        /\ ConnectorUnchanged

\* faulty variant: perform_service_procedure accepting any procedure name
perform_service_procedure_AnyName ==
    \E procedure_name \in ProcedureNames :
        /\ last' = [op |-> "perform_service_procedure",
                    ret |-> session_active,
                    calls |-> <<>>, arg |-> procedure_name,
                    tick |-> ~last.tick, pre |-> Pre]
        /\ UNCHANGED <<session_active, start_time, dtcs, live_data, started>>
        /\ ConnectorUnchanged

\* DiagnosticSession.perform_service_procedure(procedure_name, parameters)
perform_service_procedure ==
    \E procedure_name \in ProcedureNames :
        /\ last' = [op |-> "perform_service_procedure",
                    ret |-> IF ~session_active THEN FALSE
                            ELSE procedure_name \in
                                     {"DPF_REGEN", "OIL_RESET", "BMS_RESET"},
                    calls |-> <<>>, arg |-> procedure_name,
                    tick |-> ~last.tick, pre |-> Pre]
        /\ UNCHANGED <<session_active, start_time, dtcs, live_data, started>>
        /\ ConnectorUnchanged

\* DiagnosticSession.get_session_summary(): reads the session and the
\* connector and changes neither; the start time is reported as its ISO
\* text, written here as the time it denotes, and the duration as the
\* difference between the clock and the start time
get_session_summary ==
    \E now \in Times :
        /\ last' = [op |-> "get_session_summary",
                    ret |-> [session_active |-> session_active,
                             start_time |-> start_time,
                             duration |-> IF session_active /\ start_time # None
                                          THEN Some(now - start_time[1])
                                          ELSE None,
                             dtc_count |-> Len(dtcs),
                             live_data_parameters |-> Cardinality(DOMAIN live_data),
                             vehicle_connected |-> connector_connected],
                    calls |-> <<>>, arg |-> None, tick |-> ~last.tick,
                    pre |-> Pre]
        /\ UNCHANGED <<session_active, start_time, dtcs, live_data, started>>
        /\ ConnectorUnchanged

---------------------------------------------------------------------------
(* One connector and one session on it, driven by any caller *)

SessionInit ==
    /\ connector_connected = FALSE
    /\ vehicle_info = None
    /\ session_active = FALSE
    /\ start_time = None
    /\ dtcs = <<>>
    /\ live_data = EmptyDict
    /\ started = FALSE
    /\ last = [op |-> "__init__", ret |-> None, calls |-> <<>>, tick |-> FALSE,
            arg |-> None, pre |-> [connected |-> FALSE, active |-> FALSE, ndtcs |-> 0]]

SessionNext ==
    \/ FORScanConnector_connect
    \/ FORScanConnector_disconnect
    \/ FORScanConnector_get_vehicle_info
    \/ FORScanConnector_read_dtcs
    \/ FORScanConnector_clear_dtcs
    \/ start_session
    \/ end_session
    \/ scan_dtcs
    \/ clear_dtcs
    \/ read_live_data
    \/ perform_service_procedure
    \/ get_session_summary


---------------------------------------------------------------------------
(* The serial channel and the device behind it *)

\* what one read(1) of the channel yields: a character, "" when the read
\* timed out (b'' decodes to ''), or READ_ERROR when the read raises
READ_ERROR == "ERR"

ReadResults == {"O", "\n", ">", "", READ_ERROR}

\* the device's side of a command exchange: whether write() succeeds and
\* the results of the reads that follow; after them every read times out
Streams == UNION {[1..n -> ReadResults] : n \in 0..MaxLen}

Exchanges == {[write_ok |-> FALSE, stream |-> <<>>]}
                 \cup {[write_ok |-> TRUE, stream |-> s] : s \in Streams}

\* a device that takes the command and sends nothing
SilentDevice == [write_ok |-> TRUE, stream |-> <<>>]

\* the commands a caller sends
Commands == {"ATZ", "0100"}

\* f"{command}\r".encode()
Frame(command) == <<command, "\r">>

\* the characters str.strip() removes
Whitespace == {" ", "\t", "\n", "\r"}

\* str.strip() on a sequence of characters
RECURSIVE LStrip(_)
LStrip(s) == IF s # <<>> /\ Head(s) \in Whitespace THEN LStrip(Tail(s)) ELSE s

RECURSIVE RStrip(_)
RStrip(s) ==
    IF s # <<>> /\ s[Len(s)] \in Whitespace
    THEN RStrip(SubSeq(s, 1, Len(s) - 1)) ELSE s

\* faulty variant: lstrip() in place of strip()
Strip_LeftOnly(s) == LStrip(s)

Strip(s) == RStrip(LStrip(s))

\* response += char ('' adds nothing)
Append1(response, char) == IF char = "" THEN response ELSE Append(response, char)

\* ELM327Adapter.send_command: the loop reading one character at a time up to
\* the prompt, from read i on. When the stream is used up every further read
\* times out and yields '', which is not the prompt: the loop never ends.
RECURSIVE ReadUntilPrompt(_, _, _)
ReadUntilPrompt(stream, i, response) ==
    IF i > Len(stream)
    THEN [status |-> "hang", text |-> response, reads |-> i - 1]
    ELSE IF stream[i] = READ_ERROR
         THEN [status |-> "error", text |-> response, reads |-> i]
         ELSE IF stream[i] = ">"
              THEN [status |-> "ok", text |-> response, reads |-> i]
              ELSE ReadUntilPrompt(stream, i + 1, Append1(response, stream[i]))

\* serial readline(): characters up to and including the first newline, or up
\* to the first read that times out
RECURSIVE ReadLine(_, _, _)
ReadLine(stream, i, line) ==
    IF i > Len(stream)
    THEN [status |-> "ok", text |-> line, reads |-> i]
    ELSE IF stream[i] = READ_ERROR
         THEN [status |-> "error", text |-> line, reads |-> i]
         ELSE IF stream[i] = ""
              THEN [status |-> "ok", text |-> line, reads |-> i]
              ELSE IF stream[i] = "\n"
                   THEN [status |-> "ok", text |-> Append(line, "\n"), reads |-> i]
                   ELSE ReadLine(stream, i + 1, Append(line, stream[i]))

---------------------------------------------------------------------------
(* Adapters *)

SerialKinds == {"ELM327", "STN"}

AdapterKinds == SerialKinds \cup {"J2534"}

\* a freshly opened serial.Serial
OpenChannel == [is_open |-> TRUE]

\* the outcome of a send_command call:
\*   status  "ok" (returned), "raise" (raised to the caller), "hang" (never returns)
\*   ret     the string returned, as a sequence of characters
\*   written the frames written to the channel;  reads  the reads made
Outcome(status, ret, written, reads) ==
    [status |-> status, ret |-> ret, written |-> written, reads |-> reads]

\* whether connection.write() goes through
WriteOk(conn, dev) == conn[1].is_open /\ dev.write_ok

\* faulty variant: send_command checking only that a channel object is held
ELM327_send_command_ChecksHandleOnly(conn_flag, conn, command, dev) ==
    IF conn = None
    THEN Outcome("raise", <<>>, <<>>, 0)
    ELSE IF ~WriteOk(conn, dev)
         THEN Outcome("ok", <<>>, <<>>, 0)
         ELSE LET r == ReadUntilPrompt(dev.stream, 1, <<>>)
              IN  CASE r.status = "ok" ->
                         Outcome("ok", Strip(r.text), <<Frame(command)>>, r.reads)
                    [] r.status = "error" ->
                         Outcome("ok", <<>>, <<Frame(command)>>, r.reads)
                    [] OTHER ->
                         Outcome("hang", <<>>, <<Frame(command)>>, r.reads)

\* ELM327Adapter.send_command(command)
ELM327_send_command(conn_flag, conn, command, dev) ==
    IF ~conn_flag \/ conn = None
    THEN Outcome("raise", <<>>, <<>>, 0)
    ELSE IF ~WriteOk(conn, dev)
         THEN Outcome("ok", <<>>, <<>>, 0)
         ELSE LET r == ReadUntilPrompt(dev.stream, 1, <<>>)
              IN  CASE r.status = "ok" ->
                         Outcome("ok", Strip(r.text), <<Frame(command)>>, r.reads)
                    [] r.status = "error" ->
                         Outcome("ok", <<>>, <<Frame(command)>>, r.reads)
                    [] OTHER ->
                         Outcome("hang", <<>>, <<Frame(command)>>, r.reads)

\* faulty variant: send_command letting a channel failure reach the caller
STN_send_command_Raises(conn_flag, conn, command, dev) ==
    IF ~conn_flag \/ conn = None
    THEN Outcome("raise", <<>>, <<>>, 0)
    ELSE IF ~WriteOk(conn, dev)
         THEN Outcome("raise", <<>>, <<>>, 0)
         ELSE LET r == ReadLine(dev.stream, 1, <<>>)
              IN  IF r.status = "ok"
                  THEN Outcome("ok", Strip(r.text), <<Frame(command)>>, r.reads)
                  ELSE Outcome("raise", <<>>, <<Frame(command)>>, r.reads)

\* STNAdapter.send_command(command)
STN_send_command(conn_flag, conn, command, dev) ==
    IF ~conn_flag \/ conn = None
    THEN Outcome("raise", <<>>, <<>>, 0)
    ELSE IF ~WriteOk(conn, dev)
         THEN Outcome("ok", <<>>, <<>>, 0)
         ELSE LET r == ReadLine(dev.stream, 1, <<>>)
              IN  IF r.status = "ok"
                  THEN Outcome("ok", Strip(r.text), <<Frame(command)>>, r.reads)
                  ELSE Outcome("ok", <<>>, <<Frame(command)>>, r.reads)

\* J2534Adapter.send_command(command)
J2534_send_command(conn_flag, command) ==
    IF ~conn_flag
    THEN Outcome("raise", <<>>, <<>>, 0)
    ELSE Outcome("ok", <<"O", "K">>, <<>>, 0)

\* send_command of the adapter class k
SendCommand(k, conn_flag, conn, command, dev) ==
    CASE k = "ELM327" -> ELM327_send_command(conn_flag, conn, command, dev)
      [] k = "STN"    -> STN_send_command(conn_flag, conn, command, dev)
      [] OTHER        -> J2534_send_command(conn_flag, command)

\* ELM327Adapter._initialize_elm327: init_commands
ELM327InitCommands == <<"ATZ", "ATE0", "ATL0", "ATS0", "ATH1", "ATSP0">>

\* STNAdapter._initialize_stn: init_commands
STNInitCommands == <<"STZ", "STE0", "STL0", "STSP0">>

InitCommands(k) == IF k = "ELM327" THEN ELM327InitCommands ELSE STNInitCommands

\* _initialize_elm327 / _initialize_stn: the loop over init_commands, from
\* command i on, having written the frames in written. The outcome is "ok"
\* when every send_command returned, and that of the first send_command which
\* raised or never returned otherwise.
RECURSIVE Initialize(_, _, _, _, _, _)
Initialize(k, conn_flag, conn, dev, i, written) ==
    IF i > Len(InitCommands(k))
    THEN [status |-> "ok", written |-> written]
    ELSE LET r == SendCommand(k, conn_flag, conn, InitCommands(k)[i], dev)
         IN  IF r.status = "ok"
             THEN Initialize(k, conn_flag, conn, dev, i + 1, written \o r.written)
             ELSE [status |-> r.status, written |-> written \o r.written]

\* the fields of adapter_last a call does not set
BlankCall ==
    [op |-> "", status |-> "ok", ret |-> None, written |-> <<>>, reads |-> 0,
     closes |-> 0, command |-> "", open_ok |-> FALSE, tick |-> FALSE]

\* the record of a call; tick flips at every call, so that two equal calls in
\* a row are two steps
Call(fields) == fields @@ [tick |-> ~adapter_last.tick] @@ BlankCall

\* a call that never returns leaves the (single-threaded) caller stuck in it
Returned == adapter_last.status # "hang"

J2534Unchanged == UNCHANGED <<device_id, channel_id>>

\* no call changes the adapter's class or the device; connector and session
\* are other objects
AdapterFrame ==
    UNCHANGED <<kind, device, sessionVars, serverVars, configVars, cliVars>>

\* ELM327Adapter.connect() / STNAdapter.connect(): the same code but for the
\* initialization commands. serial.Serial(...) either raises or returns an
\* open channel; every exception is caught and turned into False.
SerialConnect(k) ==
    /\ kind = k
    /\ Returned
    /\ \E open_ok \in BOOLEAN :
        IF ~open_ok
        THEN /\ adapter_last' = Call([op |-> "connect", ret |-> FALSE,
                                      open_ok |-> open_ok])
             /\ UNCHANGED <<adapter_connected, connection>>
        ELSE LET init == Initialize(k, adapter_connected, Some(OpenChannel),
                                    device, 1, <<>>)
             IN  /\ connection' = Some(OpenChannel)
                 /\ adapter_connected' =
                        IF init.status = "ok" THEN TRUE ELSE adapter_connected
                 /\ adapter_last' =
                        Call([op |-> "connect",
                              status |-> IF init.status = "hang" THEN "hang" ELSE "ok",
                              ret |-> (init.status = "ok"),
                              written |-> init.written,
                              open_ok |-> open_ok])
    /\ J2534Unchanged
    /\ AdapterFrame

\* ELM327Adapter.connect()
ELM327Adapter_connect == SerialConnect("ELM327")

\* STNAdapter.connect()
STNAdapter_connect == SerialConnect("STN")

\* J2534Adapter.connect()
J2534Adapter_connect ==
    /\ kind = "J2534"
    /\ Returned
    /\ device_id' = Some(1)
    /\ channel_id' = Some(1)
    /\ adapter_connected' = TRUE
    /\ adapter_last' = Call([op |-> "connect", ret |-> TRUE])
    /\ UNCHANGED connection
    /\ AdapterFrame

\* faulty variant: disconnect() closing whenever a channel object is held
SerialDisconnect_NoOpenCheck(k) ==
    /\ kind = k
    /\ Returned
    /\ IF connection # None
       THEN /\ connection' = Some([is_open |-> FALSE])
            /\ adapter_connected' = FALSE
            /\ adapter_last' = Call([op |-> "disconnect", closes |-> 1])
       ELSE /\ adapter_last' = Call([op |-> "disconnect"])
            /\ UNCHANGED <<adapter_connected, connection>>
    /\ J2534Unchanged
    /\ AdapterFrame

\* ELM327Adapter.disconnect() / STNAdapter.disconnect(): the same code.
\* serial.Serial.close() leaves the channel with is_open = False.
SerialDisconnect(k) ==
    /\ kind = k
    /\ Returned
    /\ IF connection # None /\ connection[1].is_open
       THEN /\ connection' = Some([is_open |-> FALSE])
            /\ adapter_connected' = FALSE
            /\ adapter_last' = Call([op |-> "disconnect", closes |-> 1])
       ELSE /\ adapter_last' = Call([op |-> "disconnect"])
            /\ UNCHANGED <<adapter_connected, connection>>
    /\ J2534Unchanged
    /\ AdapterFrame

\* ELM327Adapter.disconnect()
ELM327Adapter_disconnect == SerialDisconnect("ELM327")

\* STNAdapter.disconnect()
STNAdapter_disconnect == SerialDisconnect("STN")

\* faulty variant: J2534 disconnect() that forgets the device and channel ids
J2534Adapter_disconnect_KeepsIds ==
    /\ kind = "J2534"
    /\ Returned
    /\ adapter_connected' = FALSE
    /\ adapter_last' = Call([op |-> "disconnect"])
    /\ UNCHANGED <<device_id, channel_id, connection>>
    /\ AdapterFrame

\* J2534Adapter.disconnect()
J2534Adapter_disconnect ==
    /\ kind = "J2534"
    /\ Returned
    /\ IF adapter_connected
       THEN /\ device_id' = None
            /\ channel_id' = None
            /\ adapter_connected' = FALSE
       ELSE UNCHANGED <<device_id, channel_id, adapter_connected>>
    /\ adapter_last' = Call([op |-> "disconnect"])
    /\ UNCHANGED connection
    /\ AdapterFrame

\* send_command(command) on the adapter, whatever its class: it changes no
\* field of the adapter
Adapter_send_command ==
    /\ Returned
    /\ \E command \in Commands :
        LET r == SendCommand(kind, adapter_connected, connection, command, device)
        IN  adapter_last' = Call([op |-> "send_command", status |-> r.status,
                                  ret |-> r.ret, written |-> r.written,
                                  reads |-> r.reads, command |-> command])
    /\ UNCHANGED <<adapter_connected, connection, device_id, channel_id>>
    /\ AdapterFrame

\* the tests' way to a connected serial adapter: the test assigns an open
\* (mock) channel to adapter.connection and sets adapter.connected = True
Test_attach_connection ==
    /\ kind \in SerialKinds
    /\ Returned
    /\ connection' = Some(OpenChannel)
    /\ adapter_connected' = TRUE
    /\ adapter_last' = Call([op |-> "attach"])
    /\ J2534Unchanged
    /\ AdapterFrame

---------------------------------------------------------------------------
(* One adapter of any class, driven by any caller *)

AdapterInit ==
    /\ kind \in AdapterKinds
    /\ device \in Exchanges
    /\ adapter_connected = FALSE
    /\ connection = None
    /\ device_id = None
    /\ channel_id = None
    /\ adapter_last = [op |-> "__init__"] @@ BlankCall

AdapterNext ==
    \/ ELM327Adapter_connect
    \/ STNAdapter_connect
    \/ J2534Adapter_connect
    \/ ELM327Adapter_disconnect
    \/ STNAdapter_disconnect
    \/ J2534Adapter_disconnect
    \/ Adapter_send_command
    \/ Test_attach_connection

---------------------------------------------------------------------------
(* Config *)

\* the values a YAML document holds, as yaml.safe_load returns them
YamlNull == [tag |-> "null"]

YamlStr(text) == [tag |-> "str", value |-> text]

YamlInt(n) == [tag |-> "int", value |-> n]

YamlFloat(x) == [tag |-> "float", value |-> x]

YamlBool(b) == [tag |-> "bool", value |-> b]

\* yaml.dump of a str | None field
YamlOptStr(v) == IF v = None THEN YamlNull ELSE YamlStr(v[1])

\* dict.get(key) on a section of the loaded document
YamlGet(section, key) == IF key \in DOMAIN section THEN section[key] ELSE YamlNull

\* Python's truth value of a loaded value: None, '', 0 and False are false
Truthy(node) ==
    CASE node.tag = "null" -> FALSE
      [] node.tag = "str"  -> node.value # ""
      [] node.tag = "bool" -> node.value
      [] OTHER             -> node.value # 0

\* str(value) of a loaded value
PyStr(node) ==
    CASE node.tag = "str"  -> node.value
      [] node.tag = "bool" -> IF node.value THEN "True" ELSE "False"
      [] node.tag = "null" -> "None"
      [] OTHER             -> ToString(node.value)

\* str(section.get(key) or default)
StrOrDefault(node, default) == IF Truthy(node) THEN PyStr(node) ELSE default

\* str(section[key]) if section.get(key) else None
OptStrOrNone(node) == IF Truthy(node) THEN Some(PyStr(node)) ELSE None

\* Config._safe_int(value, default); the strings of the model are no numerals
safe_int(node, default) ==
    CASE node.tag = "null" -> default
      [] node.tag = "str"  -> default
      [] node.tag = "bool" -> IF node.value THEN 1 ELSE 0
      [] OTHER             -> node.value

\* Config._safe_float(value, default)
safe_float(node, default) == safe_int(node, default)

\* Config._safe_bool(value, default)
safe_bool(node, default) ==
    CASE node.tag = "null" -> default
      [] node.tag = "bool" -> node.value
      [] node.tag = "str"  -> node.value \in {"true", "1", "yes", "on"}
      [] OTHER             -> node.value # 0

DefaultFormat == "%(asctime)s - %(name)s - %(levelname)s - %(message)s"

\* AdapterConfig(), LoggingConfig(), FORScanConfig() with their defaults
DefaultConfig ==
    [adapter |-> [type |-> "ELM327", port |-> "COM1", baudrate |-> 38400,
                  timeout |-> 2],
     logging |-> [level |-> "INFO", format |-> DefaultFormat, file |-> None],
     forscan |-> [executable_path |-> None, data_dir |-> "./data",
                  config_dir |-> "./config", auto_connect |-> FALSE]]

\* the document Config.save() writes: asdict of the three sections
Dump(c) ==
    [adapter |-> [type |-> YamlStr(c.adapter.type),
                  port |-> YamlStr(c.adapter.port),
                  baudrate |-> YamlInt(c.adapter.baudrate),
                  timeout |-> YamlFloat(c.adapter.timeout)],
     logging |-> [level |-> YamlStr(c.logging.level),
                  format |-> YamlStr(c.logging.format),
                  file |-> YamlOptStr(c.logging.file)],
     forscan |-> [executable_path |-> YamlOptStr(c.forscan.executable_path),
                  data_dir |-> YamlStr(c.forscan.data_dir),
                  config_dir |-> YamlStr(c.forscan.config_dir),
                  auto_connect |-> YamlBool(c.forscan.auto_connect)]]

\* the adapter section as Config.load() converts it
LoadAdapter(section) ==
    [type |-> StrOrDefault(YamlGet(section, "type"), "ELM327"),
     port |-> StrOrDefault(YamlGet(section, "port"), "COM1"),
     baudrate |-> safe_int(YamlGet(section, "baudrate"), 38400),
     timeout |-> safe_float(YamlGet(section, "timeout"), 2)]

\* the logging section as Config.load() converts it
LoadLogging(section) ==
    [level |-> StrOrDefault(YamlGet(section, "level"), "INFO"),
     format |-> StrOrDefault(YamlGet(section, "format"), DefaultFormat),
     file |-> OptStrOrNone(YamlGet(section, "file"))]

\* the forscan section as Config.load() converts it
LoadForscan(section) ==
    [executable_path |-> OptStrOrNone(YamlGet(section, "executable_path")),
     data_dir |-> StrOrDefault(YamlGet(section, "data_dir"), "./data"),
     config_dir |-> StrOrDefault(YamlGet(section, "config_dir"), "./config"),
     auto_connect |-> safe_bool(YamlGet(section, "auto_connect"), FALSE)]

\* Config.load() on the object c: a missing file or an empty document leaves
\* c as it is, and each section the document holds replaces that section of c
Load(c, file) ==
    IF file = None \/ DOMAIN file[1] = {} THEN c
    ELSE LET data == file[1]
         IN  [adapter |-> IF "adapter" \in DOMAIN data
                          THEN LoadAdapter(data.adapter) ELSE c.adapter,
              logging |-> IF "logging" \in DOMAIN data
                          THEN LoadLogging(data.logging) ELSE c.logging,
              forscan |-> IF "forscan" \in DOMAIN data
                          THEN LoadForscan(data.forscan) ELSE c.forscan]

\* the environment variables of the model
NoEnv == [FORSCAN_ADAPTER_TYPE |-> None, FORSCAN_LOG_LEVEL |-> None]

\* Config._apply_env_overrides() on the object c, for the variables of the
\* model: a variable that is unset or empty overrides nothing
ApplyEnvOverrides(c, e) ==
    LET adapter_type == e.FORSCAN_ADAPTER_TYPE
        log_level_env == e.FORSCAN_LOG_LEVEL
        c1 == IF adapter_type # None /\ adapter_type[1] # ""
              THEN [c EXCEPT !.adapter.type = adapter_type[1]] ELSE c
    IN  IF log_level_env # None /\ log_level_env[1] # ""
        THEN [c1 EXCEPT !.logging.level = log_level_env[1]] ELSE c1

\* Config.__init__(config_file): defaults, then load(), then the overrides
Construct(file, e) == ApplyEnvOverrides(Load(DefaultConfig, file), e)

\* the values a caller assigns to the fields the model varies
ConfigTypes == {"ELM327", "J2534", ""}

ConfigBaudrates == {38400, 115200}

ConfigLevels == {"INFO", "DEBUG"}

ConfigLogFiles == {None, Some("test.log")}

\* the values FORSCAN_ADAPTER_TYPE takes: unset, empty, or an adapter type
EnvTypes == {None, Some(""), Some("J2534")}

EnvLevels == {None, Some("DEBUG")}

\* a hand-written document with two incomplete sections
PartialDocument ==
    [adapter |-> [type |-> YamlStr("STN"), baudrate |-> YamlInt(115200)],
     forscan |-> [auto_connect |-> YamlStr("yes")]]

\* the files a Config is first constructed on: none, or a hand-written one
InitialFiles == {None, Some(PartialDocument), Some(EmptyDict)}

ConfigFrame == UNCHANGED <<sessionVars, adapterVars, serverVars, cliVars, env>>

ConfigCall(op, ok) == [op |-> op, ok |-> ok, tick |-> ~config_last.tick]

\* Config(config_file): a new object on the same file
Config_init ==
    /\ config' = Construct(config_file, env)
    /\ config_last' = ConfigCall("__init__", TRUE)
    /\ UNCHANGED config_file
    /\ ConfigFrame

\* Config.load()
Config_load ==
    /\ config' = Load(config, config_file)
    /\ config_last' = ConfigCall("load", TRUE)
    /\ UNCHANGED config_file
    /\ ConfigFrame

\* Config.save(): writing the file may fail, which is logged and swallowed
Config_save ==
    \E write_ok \in BOOLEAN :
        /\ config_file' = IF write_ok THEN Some(Dump(config)) ELSE config_file
        /\ config_last' = ConfigCall("save", write_ok)
        /\ UNCHANGED config
        /\ ConfigFrame

\* Config.update_adapter_config(type=..., baudrate=...)
Config_update_adapter_config ==
    \E type \in ConfigTypes, baudrate \in ConfigBaudrates :
        /\ config' = [config EXCEPT !.adapter.type = type,
                                    !.adapter.baudrate = baudrate]
        /\ config_last' = ConfigCall("update_adapter_config", TRUE)
        /\ UNCHANGED config_file
        /\ ConfigFrame

\* Config.update_logging_config(level=..., file=...)
Config_update_logging_config ==
    \E level \in ConfigLevels, file \in ConfigLogFiles :
        /\ config' = [config EXCEPT !.logging.level = level,
                                    !.logging.file = file]
        /\ config_last' = ConfigCall("update_logging_config", TRUE)
        /\ UNCHANGED config_file
        /\ ConfigFrame

\* Config.update_forscan_config(auto_connect=...)
Config_update_forscan_config ==
    \E auto_connect \in BOOLEAN :
        /\ config' = [config EXCEPT !.forscan.auto_connect = auto_connect]
        /\ config_last' = ConfigCall("update_forscan_config", TRUE)
        /\ UNCHANGED config_file
        /\ ConfigFrame

\* a Config constructed with no file and no FORSCAN_* variable set
ConfigInit ==
    /\ config_file = None
    /\ env = NoEnv
    /\ config = Construct(config_file, env)
    /\ config_last = [op |-> "__init__", ok |-> TRUE, tick |-> FALSE]

\* a Config constructed on any of the initial files in any environment
ConfigInitAny ==
    /\ config_file \in InitialFiles
    /\ env \in [FORSCAN_ADAPTER_TYPE : EnvTypes, FORSCAN_LOG_LEVEL : EnvLevels]
    /\ config = Construct(config_file, env)
    /\ config_last = [op |-> "__init__", ok |-> TRUE, tick |-> FALSE]

ConfigNext ==
    \/ Config_init
    \/ Config_load
    \/ Config_save
    \/ Config_update_adapter_config
    \/ Config_update_logging_config
    \/ Config_update_forscan_config

---------------------------------------------------------------------------
(* The REST server *)

Requests == 1..MaxRequests

\* the port a ConnectionRequest names (its default)
RequestPorts == {"COM1"}

Endpoints == {"POST /connect", "POST /disconnect", "GET /vehicle/info",
              "GET /dtcs", "DELETE /dtcs", "POST /session/start",
              "POST /session/end"}

\* the requests whose handler has not run yet
Pending == {r \in Requests : requests[r].phase = "pending"}

\* a request arrives: it is parsed and routed, and its handler is scheduled on
\* the event loop; any number of requests can be in this phase at once.
\* Requests are numbered in their order of arrival.
ReceiveRequest ==
    \E r \in Requests, endpoint \in Endpoints :
        /\ requests[r].phase = "idle"
        /\ \A q \in 1..(r - 1) : requests[q].phase # "idle"
        /\ requests' = [requests EXCEPT ![r].endpoint = endpoint,
                                        ![r].phase = "pending"]
        /\ UNCHANGED <<sessionVars, adapterVars, cliVars, configVars, _session, served>>

\* the handler of request r answers with status_code; concurrent are the other
\* requests pending while it ran
Respond(r, status_code) ==
    /\ requests' = [requests EXCEPT ![r].phase = "done",
                                    ![r].status = status_code,
                                    ![r].concurrent = Pending \ {r}]
    /\ served' = Append(served, r)

\* the handler of request r is due to run
Scheduled(r, endpoint) ==
    /\ requests[r].phase = "pending"
    /\ requests[r].endpoint = endpoint

\* faulty variant: connect_vehicle without the check of _connector.connected
connect_vehicle_Unchecked ==
    \E r \in Requests, adapter_type \in AdapterTypes, port \in RequestPorts :
        /\ Scheduled(r, "POST /connect")
        /\ config' = [config EXCEPT !.adapter.type = adapter_type,
                                    !.adapter.port = port,
                                    !.adapter.baudrate = 38400]
        /\ config_last' = ConfigCall("update_adapter_config", TRUE)
        /\ connector_connected' = TRUE
        /\ last' = [op |-> "connect", ret |-> TRUE, calls |-> <<>>,
                    arg |-> <<adapter_type, port>>,
                    tick |-> ~last.tick, pre |-> Pre]
        /\ Respond(r, 200)
        /\ UNCHANGED <<vehicle_info, session_active, start_time, dtcs,
                       live_data, started, _session, adapterVars, cliVars, config_file,
                       env>>

\* POST /connect; the request's baudrate is left at its default 38400.
\* The handler is a coroutine with no await in its body, so it
\* runs from its first statement to its return as one step of the event loop:
\* the check of _connector.connected and _connector.connect(...) are not
\* separated by any other handler.
connect_vehicle ==
    \E r \in Requests, adapter_type \in AdapterTypes, port \in RequestPorts :
        /\ Scheduled(r, "POST /connect")
        /\ IF connector_connected
           THEN /\ Respond(r, 400)
                /\ UNCHANGED <<connector_connected, last, config, config_last>>
           ELSE /\ config' = [config EXCEPT !.adapter.type = adapter_type,
                                            !.adapter.port = port,
                                            !.adapter.baudrate = 38400]
                /\ config_last' = ConfigCall("update_adapter_config", TRUE)
                /\ connector_connected' = TRUE
                /\ last' = [op |-> "connect", ret |-> TRUE, calls |-> <<>>,
                            arg |-> <<adapter_type, port>>,
                            tick |-> ~last.tick, pre |-> Pre]
                /\ Respond(r, 200)
        /\ UNCHANGED <<vehicle_info, session_active, start_time, dtcs,
                       live_data, started, _session, adapterVars, cliVars, config_file,
                       env>>

\* faulty variant: disconnect_vehicle that disconnects the connector and
\* leaves the session as it is
disconnect_vehicle_KeepsSession ==
    \E r \in Requests :
        /\ Scheduled(r, "POST /disconnect")
        /\ IF ~connector_connected
           THEN /\ Respond(r, 400)
                /\ UNCHANGED <<connector_connected, last>>
           ELSE /\ connector_connected' = FALSE
                /\ last' = [op |-> "disconnect", ret |-> None, calls |-> <<>>,
                            arg |-> None, tick |-> ~last.tick, pre |-> Pre]
                /\ Respond(r, 200)
        /\ UNCHANGED <<session_active, start_time, _session, vehicle_info, dtcs,
                       live_data, started, adapterVars, cliVars, configVars>>

\* POST /disconnect: one step, as connect_vehicle
disconnect_vehicle ==
    \E r \in Requests :
        /\ Scheduled(r, "POST /disconnect")
        /\ IF ~connector_connected
           THEN /\ Respond(r, 400)
                /\ UNCHANGED <<connector_connected, session_active, start_time,
                               _session, last>>
           ELSE /\ IF _session /\ session_active
                   THEN /\ session_active' = FALSE
                        /\ start_time' = None
                        /\ _session' = FALSE
                   ELSE UNCHANGED <<session_active, start_time, _session>>
                /\ connector_connected' = FALSE
                /\ last' = [op |-> "disconnect", ret |-> None, calls |-> <<>>,
                            arg |-> None, tick |-> ~last.tick, pre |-> Pre]
                /\ Respond(r, 200)
        /\ UNCHANGED <<vehicle_info, dtcs, live_data, started, adapterVars, cliVars,
                       configVars>>

\* GET /vehicle/info: one step; _connector.get_vehicle_info() on a connected
\* connector stores and returns the placeholder vehicle
server_get_vehicle_info ==
    \E r \in Requests :
        /\ Scheduled(r, "GET /vehicle/info")
        /\ IF ~connector_connected
           THEN /\ Respond(r, 400)
                /\ UNCHANGED <<vehicle_info, last>>
           ELSE /\ vehicle_info' = Some(FixtureVehicleInfo)
                /\ last' = [op |-> "get_vehicle_info", ret |-> vehicle_info',
                            calls |-> <<>>, arg |-> None,
                            tick |-> ~last.tick, pre |-> Pre]
                /\ Respond(r, IF vehicle_info' = None THEN 404 ELSE 200)
        /\ UNCHANGED <<connector_connected, session_active, start_time, dtcs,
                       live_data, started, _session, adapterVars, cliVars, configVars>>

\* GET /dtcs: one step; it asks the connector, not the session
server_read_dtcs ==
    \E r \in Requests :
        /\ Scheduled(r, "GET /dtcs")
        /\ IF ~connector_connected
           THEN /\ Respond(r, 400)
                /\ UNCHANGED last
           ELSE /\ last' = [op |-> "connector.read_dtcs",
                            ret |-> Connector_read_dtcs(connector_connected),
                            calls |-> <<>>, arg |-> None,
                            tick |-> ~last.tick, pre |-> Pre]
                /\ Respond(r, 200)
        /\ UNCHANGED <<connector_connected, vehicle_info, session_active,
                       start_time, dtcs, live_data, started, _session,
                       adapterVars, cliVars, configVars>>

\* DELETE /dtcs: one step; it asks the connector, not the session
server_clear_dtcs ==
    \E r \in Requests :
        /\ Scheduled(r, "DELETE /dtcs")
        /\ IF ~connector_connected
           THEN /\ Respond(r, 400)
                /\ UNCHANGED last
           ELSE /\ last' = [op |-> "connector.clear_dtcs",
                            ret |-> Connector_clear_dtcs(connector_connected),
                            calls |-> <<>>, arg |-> None,
                            tick |-> ~last.tick, pre |-> Pre]
                /\ Respond(r, IF Connector_clear_dtcs(connector_connected)
                              THEN 200 ELSE 500)
        /\ UNCHANGED <<connector_connected, vehicle_info, session_active,
                       start_time, dtcs, live_data, started, _session,
                       adapterVars, cliVars, configVars>>

\* faulty variant: POST /session/start replacing a session that is active
server_start_session_Replaces ==
    \E r \in Requests :
        /\ Scheduled(r, "POST /session/start")
        /\ IF ~connector_connected
           THEN /\ Respond(r, 400)
                /\ UNCHANGED <<session_active, start_time, dtcs, live_data,
                               started, _session, last>>
           ELSE \E now \in Times :
                /\ _session' = TRUE
                /\ session_active' = TRUE
                /\ start_time' = Some(now)
                /\ dtcs' = <<>>
                /\ live_data' = EmptyDict
                /\ started' = TRUE
                /\ last' = [op |-> "start_session", ret |-> TRUE,
                            calls |-> <<>>, arg |-> None,
                            tick |-> ~last.tick, pre |-> Pre]
                /\ Respond(r, 200)
        /\ UNCHANGED <<connector_connected, vehicle_info, adapterVars, cliVars, configVars>>

\* POST /session/start: one step; a new DiagnosticSession replaces _session
server_start_session ==
    \E r \in Requests :
        /\ Scheduled(r, "POST /session/start")
        /\ IF ~connector_connected \/ (_session /\ session_active)
           THEN /\ Respond(r, 400)
                /\ UNCHANGED <<session_active, start_time, dtcs, live_data,
                               started, _session, last>>
           ELSE \E now \in Times :
                /\ _session' = TRUE
                /\ session_active' = TRUE
                /\ start_time' = Some(now)
                /\ dtcs' = <<>>
                /\ live_data' = EmptyDict
                /\ started' = TRUE
                /\ last' = [op |-> "start_session", ret |-> TRUE,
                            calls |-> <<>>, arg |-> None,
                            tick |-> ~last.tick, pre |-> Pre]
                /\ Respond(r, 200)
        /\ UNCHANGED <<connector_connected, vehicle_info, adapterVars, cliVars, configVars>>

\* POST /session/end: one step
server_end_session ==
    \E r \in Requests :
        /\ Scheduled(r, "POST /session/end")
        /\ IF ~_session \/ ~session_active
           THEN /\ Respond(r, 400)
                /\ UNCHANGED <<session_active, start_time, _session, last>>
           ELSE /\ session_active' = FALSE
                /\ start_time' = None
                /\ _session' = FALSE
                /\ last' = [op |-> "end_session", ret |-> None, calls |-> <<>>,
                            arg |-> None, tick |-> ~last.tick, pre |-> Pre]
                /\ Respond(r, 200)
        /\ UNCHANGED <<connector_connected, vehicle_info, dtcs, live_data,
                       started, adapterVars, cliVars, configVars>>

\* the server after startup: lifespan has created _connector, _session is None
\* and no request has arrived
ServerInit ==
    /\ _session = FALSE
    /\ requests = [r \in Requests |->
                      [endpoint |-> "", phase |-> "idle", status |-> 0,
                       concurrent |-> {}]]
    /\ served = <<>>

ServerNext ==
    \/ ReceiveRequest
    \/ connect_vehicle
    \/ disconnect_vehicle
    \/ server_get_vehicle_info
    \/ server_read_dtcs
    \/ server_clear_dtcs
    \/ server_start_session
    \/ server_end_session

---------------------------------------------------------------------------
(* The command line: scan, clear and service *)

CliCommands == {"scan", "clear", "service"}

\* the options of an invocation; --procedure is an option of service only
CliInvocations ==
    {[name |-> n, adapter |-> a, port |-> p, procedure |-> ""] :
        n \in {"scan", "clear"}, a \in AdapterTypes, p \in Ports}
    \cup {[name |-> "service", adapter |-> a, port |-> p, procedure |-> q] :
            a \in AdapterTypes, p \in Ports, q \in ProcedureNames}

CliFrame == UNCHANGED <<adapterVars, serverVars, configVars>>

\* a command starts: it builds its own FORScanConnector and DiagnosticSession
Cli_invoke ==
    \E invocation \in CliInvocations :
        /\ cli_pc \in {"idle", "returned"}
        /\ cli_command' = invocation
        /\ cli_pc' = "created"
        /\ connector_connected' = FALSE
        /\ vehicle_info' = None
        /\ session_active' = FALSE
        /\ start_time' = None
        /\ dtcs' = <<>>
        /\ live_data' = EmptyDict
        /\ started' = FALSE
        /\ last' = [op |-> "__init__", ret |-> None, calls |-> <<>>,
                    arg |-> None, tick |-> ~last.tick, pre |-> Pre]
        /\ CliFrame

\* if not connector.connect(adapter, port): ...; return
Cli_connect ==
    /\ cli_pc = "created"
    /\ connector_connected' = TRUE
    /\ last' = [op |-> "connect", ret |-> TRUE, calls |-> <<>>,
                arg |-> <<cli_command.adapter, cli_command.port>>,
                tick |-> ~last.tick, pre |-> Pre]
    /\ cli_pc' = IF last'.ret THEN "connected" ELSE "returned"
    /\ UNCHANGED <<vehicle_info, session_active, start_time, dtcs, live_data,
                   started, cli_command>>
    /\ CliFrame

\* if not session.start_session(): ...; return
Cli_start_session ==
    /\ cli_pc = "connected"
    /\ IF ~connector_connected
       THEN /\ last' = [op |-> "start_session", ret |-> FALSE, calls |-> <<>>,
                        arg |-> None, tick |-> ~last.tick, pre |-> Pre]
            /\ cli_pc' = "returned"
            /\ UNCHANGED <<session_active, start_time, started>>
       ELSE \E now \in Times :
            /\ session_active' = TRUE
            /\ start_time' = Some(now)
            /\ started' = TRUE
            /\ last' = [op |-> "start_session", ret |-> TRUE, calls |-> <<>>,
                        arg |-> None, tick |-> ~last.tick, pre |-> Pre]
            /\ cli_pc' = "session"
    /\ UNCHANGED <<connector_connected, vehicle_info, dtcs, live_data,
                   cli_command>>
    /\ CliFrame

\* the body of the command: the call on the session and the printing of its
\* result. Writing to the console can raise (the output is a closed pipe,
\* say); 'except Exception' then prints the error and the command returns.
Cli_run ==
    /\ cli_pc = "session"
    /\ \E raises \in BOOLEAN :
           cli_pc' = IF raises THEN "returned" ELSE "worked"
    /\ CASE cli_command.name = "scan" ->
              \E now \in Times :
                 /\ dtcs' = ScannedDtcs(Connector_read_dtcs(connector_connected), now)
                 /\ last' = [op |-> "scan_dtcs", ret |-> dtcs',
                             calls |-> <<"read_dtcs">>, arg |-> None,
                             tick |-> ~last.tick, pre |-> Pre]
         [] cli_command.name = "clear" ->
              LET success == Connector_clear_dtcs(connector_connected)
              IN  /\ dtcs' = IF success THEN <<>> ELSE dtcs
                  /\ last' = [op |-> "clear_dtcs", ret |-> success,
                              calls |-> <<"clear_dtcs">>, arg |-> None,
                              tick |-> ~last.tick, pre |-> Pre]
         [] OTHER ->
              /\ last' = [op |-> "perform_service_procedure",
                          ret |-> cli_command.procedure \in
                                      {"DPF_REGEN", "OIL_RESET", "BMS_RESET"},
                          calls |-> <<>>, arg |-> cli_command.procedure,
                          tick |-> ~last.tick, pre |-> Pre]
              /\ UNCHANGED dtcs
    /\ UNCHANGED <<connector_connected, vehicle_info, session_active,
                   start_time, live_data, started, cli_command>>
    /\ CliFrame

\* session.end_session()
Cli_end_session ==
    /\ cli_pc = "worked"
    /\ IF session_active
       THEN /\ session_active' = FALSE
            /\ start_time' = None
       ELSE UNCHANGED <<session_active, start_time>>
    /\ last' = [op |-> "end_session", ret |-> None, calls |-> <<>>,
                arg |-> None, tick |-> ~last.tick, pre |-> Pre]
    /\ cli_pc' = "ended"
    /\ UNCHANGED <<connector_connected, vehicle_info, dtcs, live_data, started,
                   cli_command>>
    /\ CliFrame

\* connector.disconnect(), the last statement of the command
Cli_disconnect ==
    /\ cli_pc = "ended"
    /\ connector_connected' = IF connector_connected THEN FALSE
                              ELSE connector_connected
    /\ last' = [op |-> "disconnect", ret |-> None, calls |-> <<>>,
                arg |-> None, tick |-> ~last.tick, pre |-> Pre]
    /\ cli_pc' = "returned"
    /\ UNCHANGED <<vehicle_info, session_active, start_time, dtcs, live_data,
                   started, cli_command>>
    /\ CliFrame

\* no command has been invoked
CliInit ==
    /\ cli_command = [name |-> "", adapter |-> "", port |-> "", procedure |-> ""]
    /\ cli_pc = "idle"

CliNext ==
    \/ Cli_invoke
    \/ Cli_connect
    \/ Cli_start_session
    \/ Cli_run
    \/ Cli_end_session
    \/ Cli_disconnect

---------------------------------------------------------------------------
(* Specifications *)

\* the state after construction of a connector, a session on it and an adapter,
\* and after startup of the server
Init == SessionInit /\ AdapterInit /\ ServerInit /\ ConfigInit /\ CliInit

\* the same with one adapter, for the runs that leave the adapter alone
InitOneAdapter == Init /\ kind = "ELM327" /\ device = SilentDevice

\* a connector and its session in use, the adapter left alone
SessionSpec == InitOneAdapter /\ [][SessionNext]_vars

\* an adapter in use on any device, connector and session left alone
AdapterSpec == Init /\ [][AdapterNext]_vars

\* the server answering requests, the adapter left alone
ServerSpec == InitOneAdapter /\ [][ServerNext]_vars

\* the state after construction, with a Config on any file in any environment
InitAnyConfig ==
    /\ SessionInit
    /\ AdapterInit
    /\ ServerInit
    /\ ConfigInitAny
    /\ CliInit
    /\ kind = "ELM327"
    /\ device = SilentDevice

\* a Config in use, everything else left alone
ConfigSpec == InitAnyConfig /\ [][ConfigNext]_vars

\* commands invoked one after the other, each on its own connector and session
CliSpec == InitOneAdapter /\ [][CliNext]_vars

---------------------------------------------------------------------------
(* DiagnosticSession: the session contract *)

GuardedOps == {"scan_dtcs", "clear_dtcs", "read_live_data",
               "perform_service_procedure"}

\* what a guarded operation returns when it refuses: [] / False / {} / False
EmptyResult(op) ==
    CASE op = "scan_dtcs"      -> <<>>
      [] op = "clear_dtcs"     -> FALSE
      [] op = "read_live_data" -> EmptyDict
      [] OTHER                 -> FALSE

\* C1: while the session is not active, scan_dtcs, clear_dtcs, read_live_data
\* and perform_service_procedure return their empty/false result, leave the
\* DTC set, the live data, the active flag and the start time unchanged and
\* call no method of the connector.
C1_InactiveSessionRefuses ==
    [][ (~session_active /\ last'.op \in GuardedOps) =>
            /\ last'.ret = EmptyResult(last'.op)
            /\ last'.calls = <<>>
            /\ UNCHANGED <<session_active, start_time, dtcs, live_data>> ]_vars

\* a guarded operation was refused on a session that holds DTCs from an
\* earlier activation
C1_Witness ==
    /\ ~session_active
    /\ last.op = "scan_dtcs"
    /\ last.ret = <<>>
    /\ dtcs # <<>>

\* C2: start_session returns False unless the connector is connected, and on
\* success records the start time and sets active; session_active goes from
\* false to true only in a start_session call made while connected.
C2_StartRequiresConnected ==
    [][ /\ last'.op = "start_session" =>
               /\ last'.ret = connector_connected
               /\ last'.ret => (session_active' /\ start_time' # None)
        /\ (~session_active /\ session_active') =>
               (last'.op = "start_session" /\ connector_connected) ]_vars

\* a start_session that succeeded, and the session is active with a start time
C2_Witness ==
    /\ last.op = "start_session"
    /\ last.ret = TRUE
    /\ session_active
    /\ start_time # None

\* the codes of a list of DTC records
Codes(records) == [i \in 1..Len(records) |-> records[i].code]

\* the fixture set: P0300 and B1234, each "ACTIVE"
IsFixtureSet(records) ==
    /\ Codes(records) = <<"P0300", "B1234">>
    /\ \A i \in 1..Len(records) : records[i].status = "ACTIVE"

\* C3 as stated: scan_dtcs called before start_session returns an empty set;
\* called after start_session it returns the two fixture codes, each "ACTIVE".
C3_ScanAfterStartIsFixture ==
    last.op = "scan_dtcs" =>
        IF started THEN IsFixtureSet(last.ret) ELSE last.ret = <<>>

\* C3 amended: scan_dtcs called before any successful start_session returns
\* an empty set; called while the session is active and the connector is
\* connected it returns the two fixture codes, each "ACTIVE"; on a session
\* that was ended, or whose connector has disconnected, it returns an empty
\* set.
C3_ScanWhileActiveAndConnected ==
    last.op = "scan_dtcs" =>
        /\ ~started => last.ret = <<>>
        /\ IF session_active /\ connector_connected
           THEN IsFixtureSet(last.ret)
           ELSE last.ret = <<>>

\* a scan after start_session that returned two records
C3_Witness ==
    /\ last.op = "scan_dtcs"
    /\ started
    /\ Len(last.ret) = 2

\* C4: clear_dtcs on an active session returns true exactly when the
\* connector-level clear succeeds (the connector is connected); when it
\* returns true the session's DTC set is empty afterwards, when it returns
\* false the DTC set is unchanged.
C4_ClearFollowsConnector ==
    [][ (session_active /\ last'.op = "clear_dtcs") =>
            /\ last'.calls = <<"clear_dtcs">>
            /\ last'.ret = connector_connected
            /\ last'.ret => dtcs' = <<>>
            /\ ~last'.ret => dtcs' = dtcs ]_vars

\* a clear on an active session failed at the connector and the DTCs scanned
\* earlier are still held
C4_Witness ==
    /\ session_active
    /\ last.op = "clear_dtcs"
    /\ last.ret = FALSE
    /\ dtcs # <<>>

---------------------------------------------------------------------------
(* Adapters: the connect / disconnect / send_command contract *)

AdapterFields == <<adapter_connected, connection, device_id, channel_id>>

\* C5: for every adapter class, send_command while the adapter is
\* disconnected raises a connection error, writes nothing to the channel and
\* leaves the adapter unchanged.
C5_SendWhileDisconnectedRaises ==
    [][ (~adapter_connected /\ adapter_last'.op = "send_command") =>
            /\ adapter_last'.status = "raise"
            /\ adapter_last'.written = <<>>
            /\ adapter_last'.reads = 0
            /\ UNCHANGED AdapterFields ]_vars

\* send_command raised on a disconnected adapter that holds an open channel
\* to a device that would have taken the command
C5_Witness ==
    /\ adapter_last.op = "send_command"
    /\ adapter_last.status = "raise"
    /\ ~adapter_connected
    /\ connection = Some(OpenChannel)
    /\ device.write_ok

\* the character that ends a response for the adapter class k
Terminator(k) == IF k = "ELM327" THEN ">" ELSE "\n"

\* the device takes a command and sends a complete response to it
DeviceAnswers(k, dev) ==
    /\ dev.write_ok
    /\ \E i \in 1..Len(dev.stream) :
          /\ dev.stream[i] = Terminator(k)
          /\ \A j \in 1..(i - 1) : dev.stream[j] \notin {READ_ERROR, ""}

\* the channel fails during an exchange: the write raises, or a read raises
\* before the response is complete
ChannelFails(k, dev) ==
    \/ ~dev.write_ok
    \/ \E i \in 1..Len(dev.stream) :
          /\ dev.stream[i] = READ_ERROR
          /\ \A j \in 1..(i - 1) :
                /\ dev.stream[j] # Terminator(k)
                /\ (k = "STN" => dev.stream[j] # "")

\* the frames of the initialization sequence of the adapter class k
InitFrames(k) == [i \in 1..Len(InitCommands(k)) |-> Frame(InitCommands(k)[i])]

\* C6: connect() opens the channel, sends the initialization commands through
\* send_command, and on success sets connected, stores the handle and returns
\* true: whenever the channel opens and the device answers every
\* initialization command, connect() ends in Connected.
C6_ConnectSucceedsWhenDeviceAnswers ==
    ( /\ kind \in SerialKinds
      /\ adapter_last.op = "connect"
      /\ adapter_last.open_ok
      /\ DeviceAnswers(kind, device) ) =>
        /\ adapter_last.status = "ok"
        /\ adapter_last.ret = TRUE
        /\ adapter_last.written = InitFrames(kind)
        /\ adapter_connected
        /\ connection = Some(OpenChannel)

\* C7: connect() never raises to the caller: when opening the channel raises,
\* or the channel fails during the initialization sequence, it returns false.
C7_ConnectReturnsFalseOnChannelFailure ==
    (kind \in SerialKinds /\ adapter_last.op = "connect") =>
        /\ adapter_last.status # "raise"
        /\ (~adapter_last.open_ok \/ ChannelFails(kind, device)) =>
               (adapter_last.status = "ok" /\ adapter_last.ret = FALSE)

\* C8: a connect failure keeps or returns the adapter to Disconnected: after
\* any connect() that returns false, from any prior state, connected is false.
C8_FailedConnectLeavesDisconnected ==
    ( /\ adapter_last.op = "connect"
      /\ adapter_last.status = "ok"
      /\ adapter_last.ret = FALSE ) => ~adapter_connected

\* C9: disconnect() closes the channel idempotently: after disconnect() on a
\* connected adapter connected is false and the channel was closed exactly
\* once; a second disconnect() changes no state and closes nothing.
C9_DisconnectIdempotent ==
    [][ adapter_last'.op = "disconnect" =>
            /\ (kind \in SerialKinds /\ adapter_connected) =>
                   /\ ~adapter_connected'
                   /\ adapter_last'.closes = 1
                   /\ connection' = Some([is_open |-> FALSE])
            /\ adapter_last.op = "disconnect" =>
                   /\ UNCHANGED AdapterFields
                   /\ adapter_last'.closes = 0 ]_vars

\* a disconnect() that found the channel already closed by an earlier
\* disconnect() and closed nothing
C9_Witness ==
    /\ adapter_last.op = "disconnect"
    /\ adapter_last.closes = 0
    /\ ~adapter_connected
    /\ connection = Some([is_open |-> FALSE])

\* the device takes the command and its prompt arrives before any read raises
PromptArrives(dev) ==
    /\ dev.write_ok
    /\ \E i \in 1..Len(dev.stream) :
          /\ dev.stream[i] = ">"
          /\ \A j \in 1..(i - 1) : dev.stream[j] # READ_ERROR

\* the position of the first prompt in a stream that holds one
FirstPrompt(stream) ==
    CHOOSE i \in 1..Len(stream) :
        /\ stream[i] = ">"
        /\ \A j \in 1..(i - 1) : stream[j] # ">"

\* the characters received in the first n reads
Received(stream, n) == SelectSeq(SubSeq(stream, 1, n), LAMBDA c : c # "")

\* text without its leading and trailing whitespace
Trimmed(text) ==
    LET black == {i \in 1..Len(text) : text[i] \notin Whitespace}
    IN  IF black = {} THEN <<>>
        ELSE SubSeq(text, CHOOSE i \in black : \A j \in black : i <= j,
                          CHOOSE i \in black : \A j \in black : i >= j)

\* C10: on a connected ELM327 adapter send_command(cmd) writes cmd followed by
\* one carriage return exactly once, reads one character at a time up to and
\* including the first '>' and returns the characters received before it,
\* stripped of surrounding whitespace.
C10_SendReturnsTextBeforePrompt ==
    ( /\ kind = "ELM327"
      /\ adapter_last.op = "send_command"
      /\ adapter_connected
      /\ PromptArrives(device) ) =>
        /\ adapter_last.status = "ok"
        /\ adapter_last.written = << <<adapter_last.command, "\r">> >>
        /\ adapter_last.reads = FirstPrompt(device.stream)
        /\ adapter_last.ret =
               Trimmed(Received(device.stream, FirstPrompt(device.stream) - 1))

\* a response with whitespace on both sides of its text came back stripped
C10_Witness ==
    /\ kind = "ELM327"
    /\ adapter_last.op = "send_command"
    /\ device.stream = <<"\n", "O", "\n", ">">>
    /\ adapter_last.ret = <<"O">>
    /\ adapter_last.reads = 4

---------------------------------------------------------------------------
(* FORScanConnector: the connector contract *)

ConnectorQueries == {"get_vehicle_info", "connector.read_dtcs",
                     "connector.clear_dtcs"}

\* what a query of the connector answers while not connected: None / {} / False
NotConnectedResult(op) ==
    CASE op = "get_vehicle_info"    -> None
      [] op = "connector.read_dtcs" -> EmptyDict
      [] OTHER                      -> FALSE

\* C11: while the connector is not connected, get_vehicle_info() returns
\* None, read_dtcs() returns an empty mapping and clear_dtcs() returns False,
\* and none of them changes connected or vehicle_info.
C11_DisconnectedConnectorRefuses ==
    [][ (~connector_connected /\ last'.op \in ConnectorQueries) =>
            /\ last'.ret = NotConnectedResult(last'.op)
            /\ UNCHANGED <<connector_connected, vehicle_info>> ]_vars

\* read_dtcs() was refused on a connector that had been connected before and
\* still holds the vehicle information read then
C11_Witness ==
    /\ last.op = "connector.read_dtcs"
    /\ ~last.pre.connected
    /\ last.ret = EmptyDict
    /\ vehicle_info # None

\* C12: FORScanConnector.connect(adapter_type, port) succeeds unconditionally:
\* called on a connected or on a disconnected connector, with any adapter
\* type and port, it returns True and leaves connected = True.
C12_ConnectAlwaysSucceeds ==
    [][ last'.op = "connect" =>
            /\ last'.ret = TRUE
            /\ connector_connected' = TRUE ]_vars

\* connect() was called on a connector that was connected already
C12_Witness ==
    /\ last.op = "connect"
    /\ last.pre.connected
    /\ last.ret = TRUE
    /\ connector_connected

\* C13: after FORScanConnector.disconnect() connected is False whatever it
\* was before, and disconnect() on a disconnected connector changes nothing.
C13_DisconnectResets ==
    [][ last'.op = "disconnect" =>
            /\ connector_connected' = FALSE
            /\ ~connector_connected =>
                   UNCHANGED <<connector_connected, vehicle_info, session_active,
                               start_time, dtcs, live_data>> ]_vars

\* disconnect() was called on a disconnected connector that still holds
\* vehicle information and whose session is still active
C13_Witness ==
    /\ last.op = "disconnect"
    /\ ~last.pre.connected
    /\ vehicle_info # None
    /\ session_active

---------------------------------------------------------------------------
(* DiagnosticSession: what each operation does to the session *)

SessionFields == <<session_active, start_time, dtcs, live_data>>

\* C14: start_session() on a session that is already active still asks for a
\* connected connector: it returns True exactly when the connector is
\* connected at that call, and when it returns False the active flag, the
\* start time, the DTC set and the live data are unchanged.
C14_RestartRequiresConnected ==
    [][ (session_active /\ last'.op = "start_session") =>
            /\ last'.ret = connector_connected
            /\ ~last'.ret => UNCHANGED SessionFields ]_vars

\* start_session() was refused on an active session whose connector had
\* disconnected; the session stays active
C14_Witness ==
    /\ last.op = "start_session"
    /\ last.pre.active
    /\ ~last.pre.connected
    /\ last.ret = FALSE
    /\ session_active

\* C15: end_session() is idempotent and clears the active flag and the start
\* time: after it session_active is False and start_time is None, and an
\* end_session() on a session that is not active changes nothing.
C15_EndSessionIdempotent ==
    [][ last'.op = "end_session" =>
            /\ session_active' = FALSE
            /\ start_time' = None
            /\ ~session_active => UNCHANGED SessionFields ]_vars

\* end_session() was called on a session that had been started and was no
\* longer active
C15_Witness ==
    /\ started
    /\ last.op = "end_session"
    /\ ~last.pre.active
    /\ ~session_active

\* the entries of the connector's read_dtcs() result in its current state
CurrentDtcEntries == DictGet(Connector_read_dtcs(connector_connected), "dtcs", <<>>)

\* C16: every scan_dtcs() on an active session replaces the DTC set: after it
\* the set holds exactly one record per entry of the connector's current
\* read_dtcs() result, in order, each with status "ACTIVE", and nothing of an
\* earlier scan; an empty connector result leaves the set empty.
C16_ScanReplacesDtcSet ==
    [][ (session_active /\ last'.op = "scan_dtcs") =>
            /\ Len(dtcs') = Len(CurrentDtcEntries)
            /\ \A i \in 1..Len(dtcs') :
                   /\ dtcs'[i].code = CurrentDtcEntries[i].code
                   /\ dtcs'[i].description = CurrentDtcEntries[i].description
                   /\ dtcs'[i].status = "ACTIVE"
            /\ last'.ret = dtcs' ]_vars

\* scan_dtcs() on an active session that held two records and whose connector
\* has disconnected: the connector was asked and the set is empty
C16_Witness ==
    /\ last.op = "scan_dtcs"
    /\ last.pre.active
    /\ ~last.pre.connected
    /\ last.pre.ndtcs = 2
    /\ last.calls = <<"read_dtcs">>
    /\ dtcs = <<>>

KnownProcedures == {"DPF_REGEN", "OIL_RESET", "BMS_RESET"}

\* C17: perform_service_procedure(name) returns True exactly when the session
\* is active and name is DPF_REGEN, OIL_RESET or BMS_RESET, and it never
\* changes the active flag, the start time, the DTC set or the live data.
C17_ServiceProcedureByName ==
    [][ last'.op = "perform_service_procedure" =>
            /\ last'.ret = (session_active /\ last'.arg \in KnownProcedures)
            /\ UNCHANGED SessionFields ]_vars

\* an unknown procedure name was refused on an active session
C17_Witness ==
    /\ last.op = "perform_service_procedure"
    /\ last.pre.active
    /\ last.arg \notin KnownProcedures
    /\ last.ret = FALSE

\* the recognised ids among the requested ones
Recognised(pids) == {pids[i] : i \in DOMAIN pids} \cap {"RPM", "SPEED"}

\* C18: read_live_data(ids) on an active session skips ids it does not
\* recognise and overwrites the entry of each recognised one: the keys of the
\* live data after the call are the keys before it plus the recognised
\* requested ids, and every other entry is kept.
C18_LiveDataKeysGrow ==
    [][ (session_active /\ last'.op = "read_live_data") =>
            /\ DOMAIN live_data' = DOMAIN live_data \cup Recognised(last'.arg)
            /\ \A p \in Recognised(last'.arg) : live_data'[p] = LiveParam(p)
            /\ \A p \in DOMAIN live_data \ Recognised(last'.arg) :
                   live_data'[p] = live_data[p]
            /\ last'.ret = live_data' ]_vars

\* a call asking for an unrecognised id and SPEED on a session that held RPM
C18_Witness ==
    /\ last.op = "read_live_data"
    /\ last.pre.active
    /\ last.arg = <<"TEMP", "SPEED">>
    /\ DOMAIN live_data = {"RPM", "SPEED"}

---------------------------------------------------------------------------
(* J2534Adapter *)

\* C19: for the J2534 adapter connect() always succeeds and sets device_id = 1,
\* channel_id = 1 and connected = True; disconnect() resets both ids to None
\* and connected to False; send_command on a connected adapter returns "OK";
\* and after any sequence of connect, disconnect and send_command, connected
\* is True exactly when device_id and channel_id are both set.
C19_J2534IdsFollowConnected ==
    /\ [][ kind = "J2534" =>
             /\ adapter_last'.op = "connect" =>
                    /\ adapter_last'.status = "ok"
                    /\ adapter_last'.ret = TRUE
                    /\ device_id' = Some(1)
                    /\ channel_id' = Some(1)
                    /\ adapter_connected' = TRUE
             /\ adapter_last'.op = "disconnect" =>
                    /\ device_id' = None
                    /\ channel_id' = None
                    /\ adapter_connected' = FALSE
             /\ (adapter_last'.op = "send_command" /\ adapter_connected) =>
                    /\ adapter_last'.status = "ok"
                    /\ adapter_last'.ret = <<"O", "K">>
                    /\ UNCHANGED AdapterFields ]_vars
    /\ [](kind = "J2534" =>
             (adapter_connected <=> (device_id # None /\ channel_id # None)))

\* a command was answered "OK" by a J2534 adapter that connect() had connected
C19_Witness ==
    /\ kind = "J2534"
    /\ adapter_last.op = "send_command"
    /\ adapter_last.ret = <<"O", "K">>
    /\ adapter_connected
    /\ device_id = Some(1)
    /\ channel_id = Some(1)

---------------------------------------------------------------------------
(* The REST server: concurrent requests *)

\* request r was answered status_code by the handler of endpoint
Answered(r, endpoint, status_code) ==
    /\ requests[r].phase = "done"
    /\ requests[r].endpoint = endpoint
    /\ requests[r].status = status_code

\* the handler of request r runs in this step
Serves(r) == requests[r].phase = "pending" /\ requests'[r].phase = "done"

\* the POST /connect request r is served in this step and reports success
ConnectSucceeds(r) ==
    /\ connect_vehicle
    /\ Serves(r)
    /\ requests'[r].status = 200

\* the place of an answered request in the order of service
Position(r) == CHOOSE i \in DOMAIN served : served[i] = r

\* C20 as stated: two POST /connect requests that are in flight together
\* against a disconnected connector can both pass the 'Already connected'
\* check and both report success.
C20_ConcurrentConnectsCanBothSucceed ==
    \A r1, r2 \in Requests :
        ( /\ r1 # r2
          /\ Scheduled(r1, "POST /connect")
          /\ Scheduled(r2, "POST /connect")
          /\ ~connector_connected )
        => ENABLED (ConnectSucceeds(r1) /\ (ENABLED ConnectSucceeds(r2))')

\* C20 amended: the server keeps one global connector and session and takes
\* no lock, but a handler runs from its check to its answer as one step: a
\* POST /connect reports success exactly when it finds the connector
\* disconnected, and it leaves the connector connected in that same step; a
\* POST /connect that finds it connected is answered 400 and changes nothing.
\* So of two POST /connect requests in flight together, both report success
\* only if a POST /disconnect succeeded between them.
C20_ConnectCheckAndConnectAreOneStep ==
    /\ [][ \A r \in Requests :
             (Serves(r) /\ requests[r].endpoint = "POST /connect") =>
                 /\ requests'[r].status = IF connector_connected THEN 400 ELSE 200
                 /\ connector_connected' = TRUE
                 /\ connector_connected =>
                        UNCHANGED <<sessionVars, _session>> ]_vars
    /\ [](\A r1, r2 \in Requests :
             ( /\ Answered(r1, "POST /connect", 200)
               /\ Answered(r2, "POST /connect", 200)
               /\ Position(r1) < Position(r2) )
             => \E r3 \in Requests :
                    /\ Answered(r3, "POST /disconnect", 200)
                    /\ Position(r1) < Position(r3)
                    /\ Position(r3) < Position(r2))

\* two POST /connect requests were in flight together against a disconnected
\* connector: the one served first reported success, the other was answered 400
C20_Witness ==
    \E r1, r2 \in Requests :
        /\ Answered(r1, "POST /connect", 200)
        /\ Answered(r2, "POST /connect", 400)
        /\ r2 \in requests[r1].concurrent
        /\ served = <<r1, r2>>

---------------------------------------------------------------------------
(* The REST server: preconditions *)

NeedsConnection == {"POST /disconnect", "GET /vehicle/info", "GET /dtcs",
                    "DELETE /dtcs", "POST /session/start"}

\* the precondition of endpoint fails in the current state
PreconditionFails(endpoint) ==
    \/ endpoint \in NeedsConnection /\ ~connector_connected
    \/ endpoint = "POST /connect" /\ connector_connected
    \/ endpoint = "POST /session/start" /\ _session /\ session_active
    \/ endpoint = "POST /session/end" /\ ~(_session /\ session_active)

\* C21: every request whose precondition fails is answered 400 and changes
\* no state of the connector or the session: POST /disconnect,
\* GET /vehicle/info, GET /dtcs, DELETE /dtcs and POST /session/start while
\* not connected, POST /connect while connected, POST /session/start while a
\* session is active, POST /session/end while no session is active.
C21_FailedPreconditionIs400 ==
    [][ \A r \in Requests :
          (Serves(r) /\ PreconditionFails(requests[r].endpoint)) =>
              /\ requests'[r].status = 400
              /\ UNCHANGED <<connector_connected, vehicle_info, session_active,
                             start_time, dtcs, live_data, _session>> ]_vars

\* a POST /session/start was refused on a connected connector because a
\* session is active
C21_Witness ==
    \E r2 \in Requests :
        /\ Answered(r2, "POST /session/start", 400)
        /\ served # <<>>
        /\ served[Len(served)] = r2
        /\ connector_connected
        /\ _session
        /\ session_active

\* no handler is running: every request received so far has been answered
Quiescent == Pending = {}

\* C28: in the REST server, after any sequence of completed requests the
\* global session is either absent or active, and whenever it is active the
\* global connector is connected; a POST /disconnect that succeeds on an
\* active session ends and discards it and leaves the connector
\* disconnected.
C28_ServerSessionAbsentOrActive ==
    /\ [](/\ _session => session_active
          /\ (_session /\ session_active) => connector_connected)
    /\ [][ \A r \in Requests :
             (Serves(r) /\ requests[r].endpoint = "POST /disconnect"
                        /\ requests'[r].status = 200) =>
                 /\ ~_session'
                 /\ ~session_active'
                 /\ start_time' = None
                 /\ ~connector_connected' ]_vars

\* a POST /disconnect has just succeeded on a connector with an active
\* session and no other request is pending
C28_Witness ==
    \E r \in Requests :
        /\ Answered(r, "POST /disconnect", 200)
        /\ served[Len(served)] = r
        /\ last.op = "disconnect"
        /\ last.pre.active
        /\ Quiescent
        /\ ~_session
        /\ ~connector_connected


---------------------------------------------------------------------------
(* Config: file and environment *)

\* C22: Config round-trip: with no FORSCAN_* variable set, a load() that
\* follows a successful save() reproduces the adapter, logging and forscan
\* field values the object held when it was saved.
C22_SaveLoadRoundTrip ==
    [][ ( /\ env = NoEnv
          /\ config_last.op = "save"
          /\ config_last.ok
          /\ config_last'.op = "load" )
        => config' = config ]_vars

\* FORSCAN_ADAPTER_TYPE is set to a value
EnvTypeSet ==
    /\ env.FORSCAN_ADAPTER_TYPE # None
    /\ env.FORSCAN_ADAPTER_TYPE[1] # ""

\* C23: environment override precedence: when FORSCAN_ADAPTER_TYPE is set,
\* the adapter type of the Config equals the environment value after
\* construction and after any later load(), whatever the file and the
\* default say.
C23_EnvOverridesAdapterType ==
    (EnvTypeSet /\ config_last.op \in {"__init__", "load"})
        => config.adapter.type = env.FORSCAN_ADAPTER_TYPE[1]

---------------------------------------------------------------------------
(* Adapters: failures, termination and the channel handle *)

\* C24: a channel write or read failure during send_command on a connected
\* ELM327 or STN adapter is swallowed: the call returns the empty string
\* without raising and leaves the connected flag and the handle unchanged.
C24_SendSwallowsChannelFailure ==
    [][ ( /\ kind \in SerialKinds
          /\ adapter_connected
          /\ connection # None
          /\ adapter_last'.op = "send_command"
          /\ (~connection[1].is_open \/ ChannelFails(kind, device)) )
        => /\ adapter_last'.status = "ok"
           /\ adapter_last'.ret = <<>>
           /\ UNCHANGED AdapterFields ]_vars

\* on a connected adapter a read raised after the command was written, and
\* the call returned the empty string
C24_Witness ==
    /\ kind \in SerialKinds
    /\ adapter_connected
    /\ adapter_last.op = "send_command"
    /\ adapter_last.status = "ok"
    /\ adapter_last.ret = <<>>
    /\ adapter_last.reads >= 2
    /\ device.stream[adapter_last.reads] = READ_ERROR

\* C26: every send_command call on a connected ELM327 adapter returns, also
\* when the device never sends the '>' prompt and every one-byte read times
\* out with no data.
C26_SendCommandReturns ==
    (kind = "ELM327" /\ adapter_last.op = "send_command")
        => adapter_last.status # "hang"

\* C27: an ELM327 or STN adapter holds an open channel only while connected
\* is True: a connect() that returns False leaves no channel open, also when
\* the channel opened and the initialization failed.
C27_OpenChannelOnlyWhileConnected ==
    (kind \in SerialKinds /\ connection # None /\ connection[1].is_open)
        => adapter_connected

---------------------------------------------------------------------------
(* The command line: release on exit *)

\* C25: in scan, clear and service, once connector.connect has succeeded the
\* connector is disconnected and a started session is ended before the
\* command returns, on every exit path (a failed start_session and an
\* exception included).
C25_CommandDisconnectsOnReturn ==
    cli_pc = "returned" => (~connector_connected /\ ~session_active)

---------------------------------------------------------------------------
(* DiagnosticSession and its connector: the two flags *)

\* C29: for a DiagnosticSession and its connector under any sequence of
\* connector connect/disconnect and session start_session/end_session calls,
\* session_active implies connector.connected in every reachable state.
C29_ActiveImpliesConnected == session_active => connector_connected

---------------------------------------------------------------------------
(* DiagnosticSession: records across activations *)

\* C30: end_session() and start_session() change only the active flag and
\* the start time: the DTC set and the live-data mapping (and the connector)
\* are left unchanged, so records collected in one activation are still held
\* after the session is ended and started again on the same object, and
\* get_session_summary counts the records held.
C30_EndAndStartKeepRecords ==
    [][ /\ last'.op \in {"start_session", "end_session"} =>
               UNCHANGED <<dtcs, live_data, connector_connected, vehicle_info>>
        /\ last'.op = "get_session_summary" =>
               /\ last'.ret.dtc_count = Len(dtcs)
               /\ last'.ret.live_data_parameters = Cardinality(DOMAIN live_data)
               /\ UNCHANGED <<dtcs, live_data>> ]_vars

\* a session that was not active and held two DTCs and a live-data
\* parameter from an earlier activation has just been started again
C30_Witness ==
    /\ last.op = "start_session"
    /\ last.ret = TRUE
    /\ ~last.pre.active
    /\ last.pre.ndtcs = 2
    /\ Len(dtcs) = 2
    /\ live_data # EmptyDict
    /\ session_active

=============================================================================
